---- MODULE Spec2Model ----
(***************************************************************************)
(* AO3rs: the typed query-value serialization model and the query builder  *)
(* of src/src/query.rs (with the earlier draft of the same value types in  *)
(* src/src/lib.rs), and the extraction of work records from a results page *)
(* of src/src/parse.rs.                                                    *)
(*                                                                         *)
(* A Rust String is modelled as a sequence of one-character strings, so    *)
(* that what create_url writes is compared byte for byte.                  *)
(***************************************************************************)
EXTENDS Integers, Sequences, FiniteSets, TLC

VARIABLES
    b,             \* the AO3QueryBuilder being configured (query.rs:543-606)
    phase,         \* "building" until send consumes the builder, then "sent"
    url,           \* the string send handed to reqwest::get (query.rs:930)
    sort_touched,  \* history: set_sort_by or set_sort_direction has been called
    b2,            \* a second builder, given the same calls in another order
    rin,           \* a filter value handed to the QueryValue contract
    rout,          \* what the contract answered for rin
    requests,      \* history: the URLs reqwest::get was called with
    response,      \* what the transport answered to the request
    returned,      \* what send or simple_search returned to its caller
    html_code,     \* the document handed to parse_search (parse.rs:22)
    parsed         \* how parse_search ended for html_code

\* the variables of the transport and of the extraction
transport_vars == <<requests, response, returned>>
parse_vars == <<html_code, parsed>>

vars == <<b, phase, url, sort_touched, b2, rin, rout, transport_vars, parse_vars>>

----------------------------------------------------------------------------
(* Bounds of the model.                                                    *)

\* the number of filter values a descriptor carries (list elements count
\* one each) while it is being built
MaxFilled == 2

\* the numbers a range is built from are 0 .. MaxNum
MaxNum == 21

----------------------------------------------------------------------------
(* Text.                                                                   *)

\* "https://archiveofourown.org/works/search?"
BASE_AO3_SEARCH_URL ==
    <<"h","t","t","p","s",":","/","/","a","r","c","h","i","v","e","o","f","o","u","r","o","w","n",".","o","r","g","/","w","o","r","k","s","/","s","e","a","r","c","h","?">>

\* the text every key starts with: "work_search["
KeyPrefix == <<"w","o","r","k","_","s","e","a","r","c","h","[">>

\* the literals create_url formats each value into, up to the "{}"
\* "work_search[query]="
K_query == KeyPrefix \o <<"q","u","e","r","y","]","=">>
\* "work_search[title]="
K_title == KeyPrefix \o <<"t","i","t","l","e","]","=">>
\* "work_search[authors]="
K_authors == KeyPrefix \o <<"a","u","t","h","o","r","s","]","=">>
\* "work_search[revised_at]="
K_revised_at == KeyPrefix \o <<"r","e","v","i","s","e","d","_","a","t","]","=">>
\* "work_search[complete]="
K_complete == KeyPrefix \o <<"c","o","m","p","l","e","t","e","]","=">>
\* "work_search[crossover]="
K_crossover == KeyPrefix \o <<"c","r","o","s","s","o","v","e","r","]","=">>
\* "work_search[single_chapter]="
K_single_chapter == KeyPrefix \o <<"s","i","n","g","l","e","_","c","h","a","p","t","e","r","]","=">>
\* "work_search[word_count]="
K_word_count == KeyPrefix \o <<"w","o","r","d","_","c","o","u","n","t","]","=">>
\* "work_search[fandom_names]="
K_fandom_names == KeyPrefix \o <<"f","a","n","d","o","m","_","n","a","m","e","s","]","=">>
\* "work_search[rating_ids]="
K_rating_ids == KeyPrefix \o <<"r","a","t","i","n","g","_","i","d","s","]","=">>
\* "work_search[archive_warning_ids][]="
K_archive_warning_ids == KeyPrefix \o <<"a","r","c","h","i","v","e","_","w","a","r","n","i","n","g","_","i","d","s","]","[","]","=">>
\* "work_search[category_ids][]="
K_category_ids == KeyPrefix \o <<"c","a","t","e","g","o","r","y","_","i","d","s","]","[","]","=">>
\* "work_search[character_names]="
K_character_names == KeyPrefix \o <<"c","h","a","r","a","c","t","e","r","_","n","a","m","e","s","]","=">>
\* "work_search[relationship_name]="
K_relationship_name == KeyPrefix \o <<"r","e","l","a","t","i","o","n","s","h","i","p","_","n","a","m","e","]","=">>
\* "work_search[freeform_names]="
K_freeform_names == KeyPrefix \o <<"f","r","e","e","f","o","r","m","_","n","a","m","e","s","]","=">>
\* "work_search[hits]="
K_hits == KeyPrefix \o <<"h","i","t","s","]","=">>
\* "work_search[kudos_count]="
K_kudos_count == KeyPrefix \o <<"k","u","d","o","s","_","c","o","u","n","t","]","=">>
\* "work_search[commets_count]="
K_commets_count == KeyPrefix \o <<"c","o","m","m","e","t","s","_","c","o","u","n","t","]","=">>
\* "work_search[bookmarks_count]="
K_bookmarks_count == KeyPrefix \o <<"b","o","o","k","m","a","r","k","s","_","c","o","u","n","t","]","=">>
\* "work_search[sort_column]="
K_sort_column == KeyPrefix \o <<"s","o","r","t","_","c","o","l","u","m","n","]","=">>
\* "work_search[sort_direction]="
K_sort_direction == KeyPrefix \o <<"s","o","r","t","_","d","i","r","e","c","t","i","o","n","]","=">>

\* sample texts a caller passes: "a b", "c,d", and one that carries the
\* characters of a query string: "e&work_search[complete]=T&"
T_empty == <<>>
T_plain == <<"a"," ","b">>
T_comma == <<"c",",","d">>
T_inject == <<"e","&">> \o K_complete \o <<"T","&">>
Texts == {T_empty, T_plain, T_inject}

DigitChars == <<"0","1","2","3","4","5","6","7","8","9">>

\* usize formatted with "{}": the decimal digits, no sign, no padding
RECURSIVE Dec(_)
Dec(n) == IF n < 10 THEN <<DigitChars[n + 1]>>
          ELSE Dec(n \div 10) \o <<DigitChars[(n % 10) + 1]>>

\* [String]::join(sep)
RECURSIVE join(_, _)
join(v, sep) == IF v = <<>> THEN <<>>
                ELSE IF Len(v) = 1 THEN v[1]
                ELSE v[1] \o sep \o join(Tail(v), sep)

----------------------------------------------------------------------------
(* QueryValue for String.                                                  *)

String_to_query_value(self) == self

String_is_included(self) == self # <<>>

----------------------------------------------------------------------------
(* Period and DateRange.                                                   *)

Periods == {"Years", "Weeks", "Months", "Days", "Hours"}

Period_fmt(self) ==
    CASE self = "Years" -> <<"y","e","a","r","s">>
      [] self = "Weeks" -> <<"w","e","e","k","s">>
      [] self = "Months" -> <<"m","o","n","t","h","s">>
      [] self = "Days" -> <<"d","a","y","s">>
      [] self = "Hours" -> <<"h","o","u","r","s">>

Nums == 0 .. MaxNum

\* DateRange: <<"None">>, <<"Exactly", time, period>>, <<"MoreThan", time, period>>,
\* <<"LessThan", time, period>>, <<"Between", from_time, to_time, period>>
DateRanges ==
    {<<"None">>}
    \cup {<<t, n, p>> : t \in {"Exactly", "MoreThan", "LessThan"}, n \in Nums, p \in Periods}
    \cup {<<"Between", lo, hi, p>> : lo \in Nums, hi \in Nums, p \in Periods}

\* a to_query_value that ends a Between with "ago" too; C7 tells it apart
DateRange_to_query_value_ago(self) ==
    CASE self[1] = "None" -> <<>>
      [] self[1] = "Exactly" -> Dec(self[2]) \o <<" ">> \o Period_fmt(self[3]) \o <<" ","a","g","o">>
      [] self[1] = "MoreThan" ->
            <<">"," ">> \o Dec(self[2]) \o <<" ">> \o Period_fmt(self[3]) \o <<" ","a","g","o">>
      [] self[1] = "LessThan" ->
            <<"<"," ">> \o Dec(self[2]) \o <<" ">> \o Period_fmt(self[3]) \o <<" ","a","g","o">>
      [] self[1] = "Between" ->
            Dec(self[2]) \o <<"-">> \o Dec(self[3]) \o <<" ">> \o Period_fmt(self[4])
                \o <<" ","a","g","o">>

DateRange_to_query_value(self) ==
    CASE self[1] = "None" -> <<>>
      [] self[1] = "Exactly" -> Dec(self[2]) \o <<" ">> \o Period_fmt(self[3]) \o <<" ","a","g","o">>
      [] self[1] = "MoreThan" ->
            <<">"," ">> \o Dec(self[2]) \o <<" ">> \o Period_fmt(self[3]) \o <<" ","a","g","o">>
      [] self[1] = "LessThan" ->
            <<"<"," ">> \o Dec(self[2]) \o <<" ">> \o Period_fmt(self[3]) \o <<" ","a","g","o">>
      [] self[1] = "Between" ->
            Dec(self[2]) \o <<"-">> \o Dec(self[3]) \o <<" ">> \o Period_fmt(self[4])

DateRange_is_included(self) == self # <<"None">>

----------------------------------------------------------------------------
(* The draft of the same type in lib.rs: Date, with no None variant.       *)

Dates == DateRanges \ {<<"None">>}

Period_to_string(self) ==
    CASE self = "Years" -> <<"y","e","a","r","s">>
      [] self = "Weeks" -> <<"w","e","e","k","s">>
      [] self = "Months" -> <<"m","o","n","t","h","s">>
      [] self = "Days" -> <<"d","a","y","s">>
      [] self = "Hours" -> <<"h","o","u","r","s">>

Date_to_string(self) ==
    CASE self[1] = "Exactly" ->
            Dec(self[2]) \o <<" ">> \o Period_to_string(self[3]) \o <<" ","a","g","o">>
      [] self[1] = "MoreThan" ->
            <<">"," ">> \o Dec(self[2]) \o <<" ">> \o Period_to_string(self[3]) \o <<" ","a","g","o">>
      [] self[1] = "LessThan" ->
            <<"<"," ">> \o Dec(self[2]) \o <<" ">> \o Period_to_string(self[3]) \o <<" ","a","g","o">>
      [] self[1] = "Between" ->
            Dec(self[2]) \o <<"-">> \o Dec(self[3]) \o <<" ">> \o Period_to_string(self[4])

Date_to_query_value(self) == Date_to_string(self)

----------------------------------------------------------------------------
(* CompletionStatus, CrossoverStatus, bool.                                *)

CompletionStatuses == {"Ignore", "OnlyCompleted", "OnlyIncomplete"}

CompletionStatus_to_query_value(self) ==
    CASE self = "Ignore" -> <<>>
      [] self = "OnlyCompleted" -> <<"T">>
      [] self = "OnlyIncomplete" -> <<"F">>

CompletionStatus_is_included(self) == self # "Ignore"

\* the draft in lib.rs names the variants Ignore, Completed, Incomplete
LibCompletionStatuses == {"Ignore", "Completed", "Incomplete"}

LibCompletionStatus_to_query_value(self) ==
    CASE self = "Ignore" -> <<>>
      [] self = "Completed" -> <<"T">>
      [] self = "Incomplete" -> <<"F">>

CrossoverStatuses == {"Ignore", "OnlyCrossover", "OnlyNonCrossover"}

CrossoverStatus_to_query_value(self) ==
    CASE self = "Ignore" -> <<>>
      [] self = "OnlyCrossover" -> <<"T">>
      [] self = "OnlyNonCrossover" -> <<"F">>

CrossoverStatus_is_included(self) == self # "Ignore"

bool_to_query_value(self) == IF self THEN <<"1">> ELSE <<"0">>

bool_is_included(self) == TRUE

----------------------------------------------------------------------------
(* NumericalValueRange.                                                    *)

\* <<"None">>, <<"Exactly", num>>, <<"MoreThan", num>>, <<"LessThan", num>>,
\* <<"Between", from_num, to_num>>
NumericalValueRanges ==
    {<<"None">>}
    \cup {<<t, n>> : t \in {"Exactly", "MoreThan", "LessThan"}, n \in Nums}
    \cup {<<"Between", lo, hi>> : lo \in Nums, hi \in Nums}

NumericalValueRange_to_query_value(self) ==
    CASE self[1] = "None" -> <<>>
      [] self[1] = "Exactly" -> Dec(self[2])
      [] self[1] = "MoreThan" -> <<">"," ">> \o Dec(self[2])
      [] self[1] = "LessThan" -> <<"<"," ">> \o Dec(self[2])
      [] self[1] = "Between" -> Dec(self[2]) \o <<"-">> \o Dec(self[3])

NumericalValueRange_is_included(self) == self # <<"None">>

----------------------------------------------------------------------------
(* MultiString.                                                            *)

\* a join with ", " for separator; C10 tells it apart
MultiString_to_query_value_spaced(self) == join(self, <<",", " ">>)

MultiString_to_query_value(self) == join(self, <<",">>)

MultiString_is_included(self) == self # <<>>

----------------------------------------------------------------------------
(* Rating, ArchiveWarning, Category: the enum discriminants and their      *)
(* rendering.                                                              *)

Ratings == {"None", "NotRated", "General", "TeenAndUp", "Mature", "Explicit"}

\* the discriminants Rating would have with NotRated = 8; C9 tells it apart
Rating_as_usize_from_8(self) ==
    CASE self = "None" -> 0
      [] self = "NotRated" -> 8
      [] self = "General" -> 9
      [] self = "TeenAndUp" -> 10
      [] self = "Mature" -> 11
      [] self = "Explicit" -> 12

\* `Rating::X as usize`
Rating_as_usize(self) ==
    CASE self = "None" -> 0
      [] self = "NotRated" -> 9
      [] self = "General" -> 10
      [] self = "TeenAndUp" -> 11
      [] self = "Mature" -> 12
      [] self = "Explicit" -> 13

Rating_to_query_value(self) ==
    CASE self = "None" -> <<>>
      [] self = "Mature" -> Dec(Rating_as_usize("Mature"))
      [] self = "Explicit" -> Dec(Rating_as_usize("Explicit"))
      [] self = "NotRated" -> Dec(Rating_as_usize("NotRated"))
      [] self = "TeenAndUp" -> Dec(Rating_as_usize("TeenAndUp"))
      [] self = "General" -> Dec(Rating_as_usize("General"))

Rating_is_included(self) == self # "None"

ArchiveWarnings ==
    {"CreatureChoseNotToUseArchiveWarnings", "GraphicDepictionOfViolence",
     "MajorCharacterDeath", "NoArchiveWarningsApply", "RapeNonCon", "Underage"}

\* `ArchiveWarning::X as usize`
ArchiveWarning_as_usize(self) ==
    CASE self = "CreatureChoseNotToUseArchiveWarnings" -> 14
      [] self = "GraphicDepictionOfViolence" -> 17
      [] self = "MajorCharacterDeath" -> 18
      [] self = "NoArchiveWarningsApply" -> 16
      [] self = "RapeNonCon" -> 19
      [] self = "Underage" -> 20

ArchiveWarning_to_query_value(self) ==
    CASE self = "CreatureChoseNotToUseArchiveWarnings" ->
            Dec(ArchiveWarning_as_usize("CreatureChoseNotToUseArchiveWarnings"))
      [] self = "GraphicDepictionOfViolence" ->
            Dec(ArchiveWarning_as_usize("GraphicDepictionOfViolence"))
      [] self = "MajorCharacterDeath" -> Dec(ArchiveWarning_as_usize("MajorCharacterDeath"))
      [] self = "NoArchiveWarningsApply" ->
            Dec(ArchiveWarning_as_usize("NoArchiveWarningsApply"))
      [] self = "RapeNonCon" -> Dec(ArchiveWarning_as_usize("RapeNonCon"))
      [] self = "Underage" -> Dec(ArchiveWarning_as_usize("Underage"))

ArchiveWarning_is_included(self) == TRUE

Categories == {"FF", "FM", "Gen", "MM", "Multi", "Other"}

\* `Category::X as usize`
Category_as_usize(self) ==
    CASE self = "FF" -> 116
      [] self = "FM" -> 22
      [] self = "Gen" -> 21
      [] self = "MM" -> 23
      [] self = "Multi" -> 2246
      [] self = "Other" -> 24

Category_to_query_value(self) ==
    CASE self = "FF" -> Dec(Category_as_usize("FF"))
      [] self = "FM" -> Dec(Category_as_usize("FM"))
      [] self = "Gen" -> Dec(Category_as_usize("Gen"))
      [] self = "MM" -> Dec(Category_as_usize("MM"))
      [] self = "Multi" -> Dec(Category_as_usize("Multi"))
      [] self = "Other" -> Dec(Category_as_usize("Other"))

Category_is_included(self) == TRUE

----------------------------------------------------------------------------
(* MultiSelect<T>: to_query_value maps the element's to_query_value over   *)
(* the vector.                                                             *)

MultiSelect_ArchiveWarning_to_query_value(self) ==
    [i \in 1 .. Len(self) |-> ArchiveWarning_to_query_value(self[i])]

MultiSelect_Category_to_query_value(self) ==
    [i \in 1 .. Len(self) |-> Category_to_query_value(self[i])]

MultiSelect_is_included(self) == self # <<>>

----------------------------------------------------------------------------
(* SortBy, SortDirection.                                                  *)

SortBys == {"BestMatch"}

SortBy_to_query_value(self) ==
    CASE self = "BestMatch" -> <<"_","s","c","o","r","e">>

SortBy_is_included(self) == TRUE

SortDirections == {"Descending", "Ascending"}

SortDirection_to_query_value(self) ==
    CASE self = "Descending" -> <<"d","e","s","c">>
      [] self = "Ascending" -> <<"a","s","c">>

SortDirection_is_included(self) == TRUE

----------------------------------------------------------------------------
(* AO3QueryBuilder.                                                        *)

\* AO3QueryBuilder::new(): every field at its Default
new ==
    [any_field |-> <<>>,
     title |-> <<>>,
     authors |-> <<>>,
     date |-> <<"None">>,
     completion_status |-> "Ignore",
     crossover_status |-> "Ignore",
     is_single_chapter |-> FALSE,
     word_count |-> <<"None">>,
     fandoms |-> <<>>,
     rating |-> "None",
     archive_warnings |-> <<>>,
     categories |-> <<>>,
     characters |-> <<>>,
     relationships |-> <<>>,
     additional_tags |-> <<>>,
     hits |-> <<"None">>,
     kudos |-> <<"None">>,
     comments |-> <<"None">>,
     bookmarks |-> <<"None">>,
     sort_by |-> "BestMatch",
     sort_direction |-> "Descending"]

set_title(self, title) == [self EXCEPT !.title = title]

set_authors(self, authors) == [self EXCEPT !.authors = authors]

\* a push_author that puts the author first; C20 tells it apart
push_author_front(self, author) == [self EXCEPT !.authors = <<author>> \o @]

push_author(self, author) == [self EXCEPT !.authors = Append(@, author)]

set_date_range(self, date) == [self EXCEPT !.date = date]

only_completed(self) == [self EXCEPT !.completion_status = "OnlyCompleted"]

ignore_completion_status(self) == [self EXCEPT !.completion_status = "Ignore"]

only_incomplete(self) == [self EXCEPT !.completion_status = "OnlyIncomplete"]

only_crossover(self) == [self EXCEPT !.crossover_status = "OnlyCrossover"]

ignore_crossover_status(self) == [self EXCEPT !.crossover_status = "Ignore"]

only_non_crossover(self) == [self EXCEPT !.crossover_status = "OnlyNonCrossover"]

single_chapter(self, is_single_chapter) ==
    [self EXCEPT !.is_single_chapter = is_single_chapter]

set_word_count(self, word_count) == [self EXCEPT !.word_count = word_count]

set_fandoms(self, fandoms) == [self EXCEPT !.fandoms = fandoms]

push_fandom(self, fandom) == [self EXCEPT !.fandoms = Append(@, fandom)]

set_rating(self, rating) == [self EXCEPT !.rating = rating]

set_archive_warnings(self, archive_warnings) ==
    [self EXCEPT !.archive_warnings = archive_warnings]

add_archive_warning(self, archive_warning) ==
    [self EXCEPT !.archive_warnings = Append(@, archive_warning)]

set_categories(self, categories) == [self EXCEPT !.categories = categories]

push_category(self, category) == [self EXCEPT !.categories = Append(@, category)]

set_characters(self, characters) == [self EXCEPT !.characters = characters]

push_character(self, character) == [self EXCEPT !.characters = Append(@, character)]

set_relationships(self, relationships) == [self EXCEPT !.relationships = relationships]

push_relationship(self, relationship) ==
    [self EXCEPT !.relationships = Append(@, relationship)]

set_additional_tags(self, additional_tags) ==
    [self EXCEPT !.additional_tags = additional_tags]

push_additional_tag(self, additional_tag) ==
    [self EXCEPT !.additional_tags = Append(@, additional_tag)]

set_hits(self, hits) == [self EXCEPT !.hits = hits]

set_kudos(self, kudos) == [self EXCEPT !.kudos = kudos]

set_comments(self, comments) == [self EXCEPT !.comments = comments]

set_bookmarks(self, bookmarks) == [self EXCEPT !.bookmarks = bookmarks]

set_sort_by(self, sort_by) == [self EXCEPT !.sort_by = sort_by]

set_sort_direction(self, sort_direction) ==
    [self EXCEPT !.sort_direction = sort_direction]

----------------------------------------------------------------------------
(* create_url.  The state of its body is q and is_first; `emitted` keeps   *)
(* the (literal, value) arguments of the push_str calls made so far.       *)

add_delim(st) ==
    [st EXCEPT !.q = IF ~st.is_first THEN st.q \o <<"&">> ELSE st.q,
               !.is_first = FALSE]

\* add_delim(&mut q, &mut is_first); q.push_str(&format!("<key>{}", value))
push_pair(st, key, value) ==
    LET d == add_delim(st)
    IN  [d EXCEPT !.q = d.q \o key \o value,
                  !.emitted = Append(d.emitted, <<key, value>>)]

\* if field.is_included() { push the pair }
push_if(st, included, key, value) ==
    IF included THEN push_pair(st, key, value) ELSE st

\* values.into_iter().for_each(|v| { push the pair })
RECURSIVE for_each_push(_, _, _)
for_each_push(st, key, values) ==
    IF values = <<>> THEN st
    ELSE for_each_push(push_pair(st, key, values[1]), key, Tail(values))

\* the state create_url starts from: q is the base URL, nothing pushed yet
url_start == [q |-> BASE_AO3_SEARCH_URL, is_first |-> TRUE, emitted |-> <<>>]

\* create_url, from any_field to is_single_chapter
url_search_fields(st, self) ==
    LET s1 == push_if(st, String_is_included(self.any_field),
                      K_query, String_to_query_value(self.any_field))
        s2 == push_if(s1, String_is_included(self.title),
                      K_title, String_to_query_value(self.title))
        s3 == push_if(s2, MultiString_is_included(self.authors),
                      K_authors, MultiString_to_query_value(self.authors))
        s4 == push_if(s3, DateRange_is_included(self.date),
                      K_revised_at, DateRange_to_query_value(self.date))
        s5 == push_if(s4, CompletionStatus_is_included(self.completion_status),
                      K_complete, CompletionStatus_to_query_value(self.completion_status))
        s6 == push_if(s5, CrossoverStatus_is_included(self.crossover_status),
                      K_crossover, CrossoverStatus_to_query_value(self.crossover_status))
        s7 == push_if(s6, bool_is_included(self.is_single_chapter),
                      K_single_chapter, bool_to_query_value(self.is_single_chapter))
    IN  s7

\* create_url, from word_count to categories
url_work_fields(st, self) ==
    LET s8 == push_if(st, NumericalValueRange_is_included(self.word_count),
                      K_word_count, NumericalValueRange_to_query_value(self.word_count))
        s9 == push_if(s8, MultiString_is_included(self.fandoms),
                      K_fandom_names, MultiString_to_query_value(self.fandoms))
        s10 == push_if(s9, Rating_is_included(self.rating),
                       K_rating_ids, Rating_to_query_value(self.rating))
        s11 == IF MultiSelect_is_included(self.archive_warnings)
               THEN for_each_push(s10, K_archive_warning_ids,
                        MultiSelect_ArchiveWarning_to_query_value(self.archive_warnings))
               ELSE s10
        s12 == IF MultiSelect_is_included(self.categories)
               THEN for_each_push(s11, K_category_ids,
                        MultiSelect_Category_to_query_value(self.categories))
               ELSE s11
    IN  s12

\* create_url, from characters to bookmarks
url_tag_and_stat_fields(st, self) ==
    LET s13 == push_if(st, MultiString_is_included(self.characters),
                       K_character_names, MultiString_to_query_value(self.characters))
        s14 == push_if(s13, MultiString_is_included(self.relationships),
                       K_relationship_name, MultiString_to_query_value(self.relationships))
        s15 == push_if(s14, MultiString_is_included(self.additional_tags),
                       K_freeform_names, MultiString_to_query_value(self.additional_tags))
        s16 == push_if(s15, NumericalValueRange_is_included(self.hits),
                       K_hits, NumericalValueRange_to_query_value(self.hits))
        s17 == push_if(s16, NumericalValueRange_is_included(self.kudos),
                       K_kudos_count, NumericalValueRange_to_query_value(self.kudos))
        s18 == push_if(s17, NumericalValueRange_is_included(self.comments),
                       K_commets_count, NumericalValueRange_to_query_value(self.comments))
        s19 == push_if(s18, NumericalValueRange_is_included(self.bookmarks),
                       K_bookmarks_count, NumericalValueRange_to_query_value(self.bookmarks))
    IN  s19

\* the two sort fields pushed the other way round; C4 tells it apart
url_sort_fields_swapped(st, self) ==
    LET s20 == push_pair(st, K_sort_direction,
                         SortDirection_to_query_value(self.sort_direction))
        s21 == push_pair(s20, K_sort_column, SortBy_to_query_value(self.sort_by))
    IN  s21

\* create_url, the two sort fields, pushed without asking is_included
url_sort_fields(st, self) ==
    LET s20 == push_pair(st, K_sort_column, SortBy_to_query_value(self.sort_by))
        s21 == push_pair(s20, K_sort_direction,
                         SortDirection_to_query_value(self.sort_direction))
    IN  s21

\* a create_url that pushes the sort fields first; C1 tells it apart
create_url_run_sort_first(self) ==
    url_tag_and_stat_fields(
        url_work_fields(
            url_search_fields(url_sort_fields(url_start, self), self),
            self),
        self)

\* the whole body of create_url: its final q, is_first and pushes
create_url_run(self) ==
    url_sort_fields(
        url_tag_and_stat_fields(
            url_work_fields(url_search_fields(url_start, self), self), self), self)

create_url(self) == create_url_run(self).q

----------------------------------------------------------------------------
(* The values the operations are called with.                              *)

PushTexts == {T_plain, T_inject}

StringVecs == {<<>>, <<T_empty>>, <<T_comma, T_plain>>}

DateInputs ==
    {<<"None">>, <<"Exactly", 7, "Days">>, <<"MoreThan", 8, "Weeks">>,
     <<"Between", 21, 13, "Hours">>}

NumInputs == {<<"None">>, <<"LessThan", 5>>, <<"Between", 21, 13>>}

ArchiveWarningVecs == {<<>>, <<"RapeNonCon", "NoArchiveWarningsApply">>}

CategoryVecs == {<<>>, <<"FF", "Gen">>}

\* the number of filter values the descriptor carries
Filled(self) ==
    (IF self.any_field # <<>> THEN 1 ELSE 0)
    + (IF self.title # <<>> THEN 1 ELSE 0)
    + Len(self.authors)
    + (IF self.date # <<"None">> THEN 1 ELSE 0)
    + (IF self.completion_status # "Ignore" THEN 1 ELSE 0)
    + (IF self.crossover_status # "Ignore" THEN 1 ELSE 0)
    + (IF self.is_single_chapter THEN 1 ELSE 0)
    + (IF self.word_count # <<"None">> THEN 1 ELSE 0)
    + Len(self.fandoms)
    + (IF self.rating # "None" THEN 1 ELSE 0)
    + Len(self.archive_warnings)
    + Len(self.categories)
    + Len(self.characters)
    + Len(self.relationships)
    + Len(self.additional_tags)
    + (IF self.hits # <<"None">> THEN 1 ELSE 0)
    + (IF self.kudos # <<"None">> THEN 1 ELSE 0)
    + (IF self.comments # <<"None">> THEN 1 ELSE 0)
    + (IF self.bookmarks # <<"None">> THEN 1 ELSE 0)
    + (IF self.sort_direction # "Descending" THEN 1 ELSE 0)

Fits(self) == Filled(self) <= MaxFilled

\* the arguments of the runs that make two calls in both orders
OrderTexts == {T_empty, T_inject}
OrderVecs == {<<>>}

\* a value with its type, as the QueryValue contract is asked about it
NoValue == <<"String", <<>>>>

ValueInputs ==
    {<<"DateRange", v>> : v \in DateRanges}
    \cup {<<"Date", v>> : v \in Dates}
    \cup {<<"NumericalValueRange", v>> : v \in NumericalValueRanges}
    \cup {<<"CompletionStatus", v>> : v \in CompletionStatuses}
    \cup {<<"LibCompletionStatus", v>> : v \in LibCompletionStatuses}
    \cup {<<"CrossoverStatus", v>> : v \in CrossoverStatuses}
    \cup {<<"bool", v>> : v \in BOOLEAN}
    \cup {<<"Rating", v>> : v \in Ratings}
    \cup {<<"ArchiveWarning", v>> : v \in ArchiveWarnings}
    \cup {<<"Category", v>> : v \in Categories}
    \cup {<<"SortBy", v>> : v \in SortBys}
    \cup {<<"SortDirection", v>> : v \in SortDirections}
    \cup {<<"String", v>> : v \in Texts}
    \cup {<<"MultiString", v>> : v \in StringVecs}

\* the types of lib.rs have no is_included
HasIsIncluded(kind) == kind \notin {"Date", "LibCompletionStatus"}

to_query_value(kind, v) ==
    CASE kind = "DateRange" -> DateRange_to_query_value(v)
      [] kind = "Date" -> Date_to_query_value(v)
      [] kind = "NumericalValueRange" -> NumericalValueRange_to_query_value(v)
      [] kind = "CompletionStatus" -> CompletionStatus_to_query_value(v)
      [] kind = "LibCompletionStatus" -> LibCompletionStatus_to_query_value(v)
      [] kind = "CrossoverStatus" -> CrossoverStatus_to_query_value(v)
      [] kind = "bool" -> bool_to_query_value(v)
      [] kind = "Rating" -> Rating_to_query_value(v)
      [] kind = "ArchiveWarning" -> ArchiveWarning_to_query_value(v)
      [] kind = "Category" -> Category_to_query_value(v)
      [] kind = "SortBy" -> SortBy_to_query_value(v)
      [] kind = "SortDirection" -> SortDirection_to_query_value(v)
      [] kind = "String" -> String_to_query_value(v)
      [] kind = "MultiString" -> MultiString_to_query_value(v)

is_included(kind, v) ==
    CASE kind = "DateRange" -> DateRange_is_included(v)
      [] kind = "NumericalValueRange" -> NumericalValueRange_is_included(v)
      [] kind = "CompletionStatus" -> CompletionStatus_is_included(v)
      [] kind = "CrossoverStatus" -> CrossoverStatus_is_included(v)
      [] kind = "bool" -> bool_is_included(v)
      [] kind = "Rating" -> Rating_is_included(v)
      [] kind = "ArchiveWarning" -> ArchiveWarning_is_included(v)
      [] kind = "Category" -> Category_is_included(v)
      [] kind = "SortBy" -> SortBy_is_included(v)
      [] kind = "SortDirection" -> SortDirection_is_included(v)
      [] kind = "String" -> String_is_included(v)
      [] kind = "MultiString" -> MultiString_is_included(v)

----------------------------------------------------------------------------
(* The document parse_search works on, as tl::parse hands it over: a tree  *)
(* of nodes, a tag with its attributes and children or a piece of raw      *)
(* text.  A document is the sequence of its topmost nodes.                 *)

\* the number of topmost nodes of a document
MaxNodes == 2

\* an attribute the tag does not carry
Absent == <<"absent">>

NoAttributes == [role |-> Absent, id |-> Absent, href |-> Absent, class |-> Absent, rel |-> Absent]

Tag(attributes, kids) == [kind |-> "tag", attributes |-> attributes, kids |-> kids]

Raw(text) == [kind |-> "raw", text |-> text]

\* <a href=...>text</a>, <a rel="author">text</a>, <a class="tag">text</a>
Link(href, text) == Tag([NoAttributes EXCEPT !.href = href], <<Raw(text)>>)
AuthorLink(text) == Tag([NoAttributes EXCEPT !.rel = <<"a","u","t","h","o","r">>], <<Raw(text)>>)
TagLink(text) == Tag([NoAttributes EXCEPT !.class = <<"t","a","g">>], <<Raw(text)>>)
Span(kids) == Tag(NoAttributes, kids)
FandomsHeading(kids) == Tag([NoAttributes EXCEPT !.class = <<"f","a","n","d","o","m","s"," ","h","e","a","d","i","n","g">>], kids)
Article(id, kids) == Tag([NoAttributes EXCEPT !.role = <<"a","r","t","i","c","l","e">>, !.id = id], kids)

\* the id attributes a record node comes with
IdAttrs == {Absent, <<"w","o","r","k","_","7">>, <<"w","o","r","k","_","8">>, <<"w","o","r","k","_","a","b">>, <<"w","o","r","k","_","7","w","o","r","k","_">>}

\* the title links a record node comes with (none is one of them)
TitleLinks ==
    {<<>>,
     <<Link(<<"/","w","o","r","k","s","/","7">>, <<"E","x","a","m","p","l","e"," ","W","o","r","k">>)>>,
     <<Link(<<"/","w","o","r","k","s","/","8">>, <<"O","t","h","e","r"," ","W","o","r","k">>)>>,
     <<Span(<<Link(<<"/","w","o","r","k","s","/","a","b">>, <<"A","b">>)>>)>>}

\* the "fandoms heading" containers a record node comes with: none, the
\* links as children of the container, and links one level further down
Headings ==
    {<<>>,
     <<FandomsHeading(<<AuthorLink(<<"A","u","t","h","o","r"," ","O","n","e">>), Raw(<<","," ">>), AuthorLink(<<"A","u","t","h","o","r"," ","T","w","o">>),
                        TagLink(<<"F","a","n","d","o","m"," ","A">>), TagLink(<<"F","a","n","d","o","m"," ","B">>)>>)>>,
     <<FandomsHeading(<<Span(<<AuthorLink(<<"A","u","t","h","o","r"," ","O","n","e">>)>>), AuthorLink(<<"A","u","t","h","o","r"," ","T","w","o">>),
                        Span(<<TagLink(<<"F","a","n","d","o","m"," ","A">>)>>), TagLink(<<"F","a","n","d","o","m"," ","B">>)>>)>>}

Articles == {Article(id, t \o h) : id \in IdAttrs, t \in TitleLinks, h \in Headings}

\* a node outside every record, and a record one level down in the document
PlainDiv == Tag(NoAttributes, <<Raw(<<"N","o"," ","r","e","s","u","l","t","s">>)>>)
WrappedArticle ==
    Tag(NoAttributes, <<Article(<<"w","o","r","k","_","8">>, <<Link(<<"/","w","o","r","k","s","/","8">>, <<"O","t","h","e","r"," ","W","o","r","k">>),
                                                FandomsHeading(<<TagLink(<<"F","a","n","d","o","m"," ","B">>)>>)>>)>>)

TopNodes == Articles \cup {PlainDiv, WrappedArticle}

RECURSIVE SeqsUpTo(_, _)
\* the sequences of at most n elements of S
SeqsUpTo(S, n) ==
    IF n = 0 THEN {<<>>}
    ELSE LET shorter == SeqsUpTo(S, n - 1)
         IN  shorter \cup {Append(s, x) : s \in shorter, x \in S}

Pages == SeqsUpTo(TopNodes, MaxNodes)

\* the results page of one record: id 12345678 is shortened to 7
SamplePage ==
    <<Article(<<"w","o","r","k","_","7">>,
        <<Link(<<"/","w","o","r","k","s","/","7">>, <<"E","x","a","m","p","l","e"," ","W","o","r","k">>),
          FandomsHeading(<<AuthorLink(<<"A","u","t","h","o","r"," ","O","n","e">>), Raw(<<","," ">>), AuthorLink(<<"A","u","t","h","o","r"," ","T","w","o">>),
                           TagLink(<<"F","a","n","d","o","m"," ","A">>), TagLink(<<"F","a","n","d","o","m"," ","B">>)>>)>>)>>

\* the body the transport answers with
Bodies == {SamplePage}

----------------------------------------------------------------------------
(* What parse.rs uses of tl.                                               *)

RECURSIVE all(_), all_of(_)
\* Children::all: every node below `node`, subnodes of children included,
\* in document order
all(node) == IF node.kind = "tag" THEN all_of(node.kids) ELSE <<>>

all_of(kids) ==
    IF kids = <<>> THEN <<>>
    ELSE <<kids[1]>> \o all(kids[1]) \o all_of(Tail(kids))

RECURSIVE inner_text(_), inner_text_of(_)
\* Node::inner_text: the raw text below the node, concatenated
inner_text(node) == IF node.kind = "raw" THEN node.text ELSE inner_text_of(node.kids)

inner_text_of(kids) ==
    IF kids = <<>> THEN <<>>
    ELSE inner_text(kids[1]) \o inner_text_of(Tail(kids))

\* the closure of search_by_attrib and the filter of search_all_by_attrib:
\* a tag whose attribute `attrib` has a value, equal to `value`
attrib_is(n, attrib, value) ==
    /\ n.kind = "tag"
    /\ n.attributes[attrib] # Absent
    /\ n.attributes[attrib] = value

RECURSIVE find_node(_, _, _), find_node_in(_, _, _)
\* Node::find_node: the first node below `node`, depth first, the closure
\* accepts
find_node(node, attrib, value) ==
    IF node.kind = "tag" THEN find_node_in(node.kids, attrib, value) ELSE <<"None">>

find_node_in(kids, attrib, value) ==
    IF kids = <<>> THEN <<"None">>
    ELSE IF attrib_is(kids[1], attrib, value) THEN <<"Some", kids[1]>>
    ELSE LET subnode == find_node(kids[1], attrib, value)
         IN  IF subnode # <<"None">> THEN subnode
             ELSE find_node_in(Tail(kids), attrib, value)

RECURSIVE Reverse(_)
Reverse(s) == IF s = <<>> THEN <<>> ELSE Append(Reverse(Tail(s)), s[1])

\* a query_selector that hands the matching nodes over last first; C19
\* tells it apart
query_selector_last_first(dom) ==
    <<"Some", Reverse(SelectSeq(all_of(dom), LAMBDA n : attrib_is(n, "role", <<"a","r","t","i","c","l","e">>)))>>

\* VDom::query_selector("[role=article]"): None only for a selector that
\* does not parse, which this one does; otherwise the matching nodes of the
\* document in document order, none if none matches
query_selector(dom) ==
    <<"Some", SelectSeq(all_of(dom), LAMBDA n : attrib_is(n, "role", <<"a","r","t","i","c","l","e">>))>>

RECURSIVE replace(_, _, _)
\* str::replace: every match of `from`, left to right, none overlapping
replace(s, from, to) ==
    IF Len(s) < Len(from) THEN s
    ELSE IF SubSeq(s, 1, Len(from)) = from
         THEN to \o replace(SubSeq(s, Len(from) + 1, Len(s)), from, to)
         ELSE <<s[1]>> \o replace(Tail(s), from, to)

----------------------------------------------------------------------------
(* parse.rs.                                                               *)

search_by_attrib(node, attrib, value) ==
    LET found == find_node(node, attrib, value)
    IN  IF found = <<"None">> THEN <<"Err", <<"CouldNotFind", attrib>>>>
        ELSE <<"Ok", found[2]>>

RECURSIVE get_all_nodes(_), get_all_nodes_loop(_)
get_all_nodes(node) ==
    IF node.kind = "tag" THEN get_all_nodes_loop(all(node)) ELSE <<>>

\* for ch in children.all(parser) { push(ch); append(get_all_nodes(ch)) }
get_all_nodes_loop(chs) ==
    IF chs = <<>> THEN <<>>
    ELSE <<chs[1]>> \o get_all_nodes(chs[1]) \o get_all_nodes_loop(Tail(chs))

search_all_by_attrib(node, attrib, value) ==
    <<"Ok", SelectSeq(get_all_nodes(node), LAMBDA nh : attrib_is(nh, attrib, value))>>

\* .map(|ch| ch.inner_text(parser).to_string()).collect()
inner_texts(nodes) == [i \in DOMAIN nodes |-> inner_text(nodes[i])]

\* AO3Work::default() with the four fields parse_search_single_work assigns
AO3Work(id, title, authors, fandoms) ==
    [id |-> id, title |-> title, authors |-> authors, fandoms |-> fandoms]

\* the result is Ok(work), Err(error), or a panic of an unwrap
parse_search_single_work(node) ==
    IF node.attributes.id = Absent THEN <<"Panic", <<"i","d">>>>
    ELSE
    LET id == replace(node.attributes.id, <<"w","o","r","k","_">>, <<>>)
        title == search_by_attrib(node, "href", <<"/","w","o","r","k","s","/">> \o id)
        heading == search_by_attrib(node, "class", <<"f","a","n","d","o","m","s"," ","h","e","a","d","i","n","g">>)
    IN  IF title[1] = "Err" THEN title
        ELSE IF heading[1] = "Err" THEN heading
        ELSE <<"Ok", AO3Work(id,
                             inner_text(title[2]),
                             inner_texts(search_all_by_attrib(heading[2], "rel", <<"a","u","t","h","o","r">>)[2]),
                             inner_texts(search_all_by_attrib(heading[2], "class", <<"t","a","g">>)[2]))>>

RECURSIVE parse_search_loop(_, _)
\* for work_node in work_list_nodes { works.push(parse_search_single_work(..)?) }
parse_search_loop(work_list_nodes, works) ==
    IF work_list_nodes = <<>> THEN <<"Ok", works>>
    ELSE LET work == parse_search_single_work(work_list_nodes[1])
         IN  IF work[1] = "Ok"
             THEN parse_search_loop(Tail(work_list_nodes), Append(works, work[2]))
             ELSE work

parse_search(dom) ==
    LET work_list_nodes == query_selector(dom)
    IN  IF work_list_nodes = <<"None">>
        THEN <<"Err", <<"CouldNotFind", "the list of works.">>>>
        ELSE parse_search_loop(work_list_nodes[2], <<>>)

----------------------------------------------------------------------------
(* The builder as a state machine: one action per public operation.  Each  *)
(* operation takes `self` by value and returns it; send consumes it.       *)

Building == phase = "building"

SetTitle ==
    \E x \in Texts :
        /\ Building
        /\ Fits(set_title(b, x))
        /\ b' = set_title(b, x)
        /\ UNCHANGED <<phase, url, sort_touched, b2, rin, rout, transport_vars, parse_vars>>

SetAuthors ==
    \E x \in StringVecs :
        /\ Building
        /\ Fits(set_authors(b, x))
        /\ b' = set_authors(b, x)
        /\ UNCHANGED <<phase, url, sort_touched, b2, rin, rout, transport_vars, parse_vars>>

PushAuthor ==
    \E x \in PushTexts :
        /\ Building
        /\ Fits(push_author(b, x))
        /\ b' = push_author(b, x)
        /\ UNCHANGED <<phase, url, sort_touched, b2, rin, rout, transport_vars, parse_vars>>

SetDateRange ==
    \E x \in DateInputs :
        /\ Building
        /\ Fits(set_date_range(b, x))
        /\ b' = set_date_range(b, x)
        /\ UNCHANGED <<phase, url, sort_touched, b2, rin, rout, transport_vars, parse_vars>>

OnlyCompleted ==
    /\ Building
    /\ Fits(only_completed(b))
    /\ b' = only_completed(b)
    /\ UNCHANGED <<phase, url, sort_touched, b2, rin, rout, transport_vars, parse_vars>>

IgnoreCompletionStatus ==
    /\ Building
    /\ Fits(ignore_completion_status(b))
    /\ b' = ignore_completion_status(b)
    /\ UNCHANGED <<phase, url, sort_touched, b2, rin, rout, transport_vars, parse_vars>>

OnlyIncomplete ==
    /\ Building
    /\ Fits(only_incomplete(b))
    /\ b' = only_incomplete(b)
    /\ UNCHANGED <<phase, url, sort_touched, b2, rin, rout, transport_vars, parse_vars>>

OnlyCrossover ==
    /\ Building
    /\ Fits(only_crossover(b))
    /\ b' = only_crossover(b)
    /\ UNCHANGED <<phase, url, sort_touched, b2, rin, rout, transport_vars, parse_vars>>

IgnoreCrossoverStatus ==
    /\ Building
    /\ Fits(ignore_crossover_status(b))
    /\ b' = ignore_crossover_status(b)
    /\ UNCHANGED <<phase, url, sort_touched, b2, rin, rout, transport_vars, parse_vars>>

OnlyNonCrossover ==
    /\ Building
    /\ Fits(only_non_crossover(b))
    /\ b' = only_non_crossover(b)
    /\ UNCHANGED <<phase, url, sort_touched, b2, rin, rout, transport_vars, parse_vars>>

SingleChapter ==
    \E x \in BOOLEAN :
        /\ Building
        /\ Fits(single_chapter(b, x))
        /\ b' = single_chapter(b, x)
        /\ UNCHANGED <<phase, url, sort_touched, b2, rin, rout, transport_vars, parse_vars>>

SetWordCount ==
    \E x \in NumInputs :
        /\ Building
        /\ Fits(set_word_count(b, x))
        /\ b' = set_word_count(b, x)
        /\ UNCHANGED <<phase, url, sort_touched, b2, rin, rout, transport_vars, parse_vars>>

SetFandoms ==
    \E x \in StringVecs :
        /\ Building
        /\ Fits(set_fandoms(b, x))
        /\ b' = set_fandoms(b, x)
        /\ UNCHANGED <<phase, url, sort_touched, b2, rin, rout, transport_vars, parse_vars>>

PushFandom ==
    \E x \in PushTexts :
        /\ Building
        /\ Fits(push_fandom(b, x))
        /\ b' = push_fandom(b, x)
        /\ UNCHANGED <<phase, url, sort_touched, b2, rin, rout, transport_vars, parse_vars>>

SetRating ==
    \E x \in Ratings :
        /\ Building
        /\ Fits(set_rating(b, x))
        /\ b' = set_rating(b, x)
        /\ UNCHANGED <<phase, url, sort_touched, b2, rin, rout, transport_vars, parse_vars>>

SetArchiveWarnings ==
    \E x \in ArchiveWarningVecs :
        /\ Building
        /\ Fits(set_archive_warnings(b, x))
        /\ b' = set_archive_warnings(b, x)
        /\ UNCHANGED <<phase, url, sort_touched, b2, rin, rout, transport_vars, parse_vars>>

AddArchiveWarning ==
    \E x \in ArchiveWarnings :
        /\ Building
        /\ Fits(add_archive_warning(b, x))
        /\ b' = add_archive_warning(b, x)
        /\ UNCHANGED <<phase, url, sort_touched, b2, rin, rout, transport_vars, parse_vars>>

SetCategories ==
    \E x \in CategoryVecs :
        /\ Building
        /\ Fits(set_categories(b, x))
        /\ b' = set_categories(b, x)
        /\ UNCHANGED <<phase, url, sort_touched, b2, rin, rout, transport_vars, parse_vars>>

PushCategory ==
    \E x \in Categories :
        /\ Building
        /\ Fits(push_category(b, x))
        /\ b' = push_category(b, x)
        /\ UNCHANGED <<phase, url, sort_touched, b2, rin, rout, transport_vars, parse_vars>>

SetCharacters ==
    \E x \in StringVecs :
        /\ Building
        /\ Fits(set_characters(b, x))
        /\ b' = set_characters(b, x)
        /\ UNCHANGED <<phase, url, sort_touched, b2, rin, rout, transport_vars, parse_vars>>

PushCharacter ==
    \E x \in PushTexts :
        /\ Building
        /\ Fits(push_character(b, x))
        /\ b' = push_character(b, x)
        /\ UNCHANGED <<phase, url, sort_touched, b2, rin, rout, transport_vars, parse_vars>>

SetRelationships ==
    \E x \in StringVecs :
        /\ Building
        /\ Fits(set_relationships(b, x))
        /\ b' = set_relationships(b, x)
        /\ UNCHANGED <<phase, url, sort_touched, b2, rin, rout, transport_vars, parse_vars>>

PushRelationship ==
    \E x \in PushTexts :
        /\ Building
        /\ Fits(push_relationship(b, x))
        /\ b' = push_relationship(b, x)
        /\ UNCHANGED <<phase, url, sort_touched, b2, rin, rout, transport_vars, parse_vars>>

SetAdditionalTags ==
    \E x \in StringVecs :
        /\ Building
        /\ Fits(set_additional_tags(b, x))
        /\ b' = set_additional_tags(b, x)
        /\ UNCHANGED <<phase, url, sort_touched, b2, rin, rout, transport_vars, parse_vars>>

PushAdditionalTag ==
    \E x \in PushTexts :
        /\ Building
        /\ Fits(push_additional_tag(b, x))
        /\ b' = push_additional_tag(b, x)
        /\ UNCHANGED <<phase, url, sort_touched, b2, rin, rout, transport_vars, parse_vars>>

SetHits ==
    \E x \in NumInputs :
        /\ Building
        /\ Fits(set_hits(b, x))
        /\ b' = set_hits(b, x)
        /\ UNCHANGED <<phase, url, sort_touched, b2, rin, rout, transport_vars, parse_vars>>

SetKudos ==
    \E x \in NumInputs :
        /\ Building
        /\ Fits(set_kudos(b, x))
        /\ b' = set_kudos(b, x)
        /\ UNCHANGED <<phase, url, sort_touched, b2, rin, rout, transport_vars, parse_vars>>

SetComments ==
    \E x \in NumInputs :
        /\ Building
        /\ Fits(set_comments(b, x))
        /\ b' = set_comments(b, x)
        /\ UNCHANGED <<phase, url, sort_touched, b2, rin, rout, transport_vars, parse_vars>>

SetBookmarks ==
    \E x \in NumInputs :
        /\ Building
        /\ Fits(set_bookmarks(b, x))
        /\ b' = set_bookmarks(b, x)
        /\ UNCHANGED <<phase, url, sort_touched, b2, rin, rout, transport_vars, parse_vars>>

SetSortBy ==
    \E x \in SortBys :
        /\ Building
        /\ Fits(set_sort_by(b, x))
        /\ b' = set_sort_by(b, x)
        /\ sort_touched' = TRUE
        /\ UNCHANGED <<phase, url, b2, rin, rout, transport_vars, parse_vars>>

SetSortDirection ==
    \E x \in SortDirections :
        /\ Building
        /\ Fits(set_sort_direction(b, x))
        /\ b' = set_sort_direction(b, x)
        /\ sort_touched' = TRUE
        /\ UNCHANGED <<phase, url, b2, rin, rout, transport_vars, parse_vars>>

\* what the transport can answer to a GET: the request fails, reading the
\* body fails, or a body arrives
Responses == {<<"RequestError">>, <<"BodyError">>} \cup {<<"Body", body>> : body \in Bodies}

\* a send that asks a second time when the transport failed; C16 tells it
\* apart
send_retrying(url_, resp) ==
    [requests |-> IF resp[1] = "Body" THEN <<url_>> ELSE <<url_, url_>>,
     result |-> IF resp[1] = "Body" THEN <<"Ok", <<"String", resp[2]>>>>
                ELSE <<"Err", resp>>]

\* send, once create_url has made url_: one reqwest::get, the text of the
\* response; either `?` returns the transport's error, otherwise the body
\* is returned as it is
send(url_, resp) ==
    [requests |-> <<url_>>,
     result |-> IF resp[1] = "Body" THEN <<"Ok", <<"String", resp[2]>>>>
                ELSE <<"Err", resp>>]

Send ==
    /\ Building
    /\ url' = create_url(b)
    /\ \E resp \in Responses :
          /\ requests' = requests \o send(url', resp).requests
          /\ response' = resp
          /\ returned' = send(url', resp).result
    /\ phase' = "sent"
    /\ UNCHANGED <<b, sort_touched, b2, rin, rout, parse_vars>>

\* the assignment simple_search makes before it sends
simple_search(self, query) == [self EXCEPT !.any_field = query]

\* simple_search returns the error of send, and () when send succeeded
simple_search_result(sent) == IF sent[1] = "Err" THEN sent ELSE <<"Ok", <<"()">>>>

SimpleSearch ==
    \E query \in Texts :
        /\ Building
        /\ Fits(simple_search(b, query))
        /\ b' = simple_search(b, query)
        /\ url' = create_url(b')
        /\ \E resp \in Responses :
              /\ requests' = requests \o send(url', resp).requests
              /\ response' = resp
              /\ returned' = simple_search_result(send(url', resp).result)
        /\ phase' = "sent"
        /\ UNCHANGED <<sort_touched, b2, rin, rout, parse_vars>>

\* nothing requested, nothing parsed
Idle ==
    /\ requests = <<>>
    /\ response = <<"None">>
    /\ returned = <<"None">>
    /\ parsed = <<"None">>

Init ==
    /\ b = new
    /\ phase = "building"
    /\ url = <<>>
    /\ sort_touched = FALSE
    /\ b2 = new
    /\ rin = NoValue
    /\ rout = <<>>
    /\ html_code = <<>>
    /\ Idle

Next ==
    \/ SetTitle
    \/ SetAuthors
    \/ PushAuthor
    \/ SetDateRange
    \/ OnlyCompleted
    \/ IgnoreCompletionStatus
    \/ OnlyIncomplete
    \/ OnlyCrossover
    \/ IgnoreCrossoverStatus
    \/ OnlyNonCrossover
    \/ SingleChapter
    \/ SetWordCount
    \/ SetFandoms
    \/ PushFandom
    \/ SetRating
    \/ SetArchiveWarnings
    \/ AddArchiveWarning
    \/ SetCategories
    \/ PushCategory
    \/ SetCharacters
    \/ PushCharacter
    \/ SetRelationships
    \/ PushRelationship
    \/ SetAdditionalTags
    \/ PushAdditionalTag
    \/ SetHits
    \/ SetKudos
    \/ SetComments
    \/ SetBookmarks
    \/ SetSortBy
    \/ SetSortDirection
    \/ Send
    \/ SimpleSearch

Spec == Init /\ [][Next]_vars

----------------------------------------------------------------------------
(* Two builders given the same two calls in the two orders.                *)

SetterNames ==
    {"set_title", "set_authors", "push_author", "set_date_range",
     "only_completed", "ignore_completion_status", "only_incomplete", "only_crossover",
     "ignore_crossover_status", "only_non_crossover", "single_chapter", "set_word_count",
     "set_fandoms", "push_fandom", "set_rating", "set_archive_warnings",
     "add_archive_warning", "set_categories", "push_category", "set_characters",
     "push_character", "set_relationships", "push_relationship", "set_additional_tags",
     "push_additional_tag", "set_hits", "set_kudos", "set_comments",
     "set_bookmarks", "set_sort_by", "set_sort_direction"}

\* the field a setter assigns
FieldOf(f) ==
    CASE f = "set_title" -> "title"
      [] f = "set_authors" -> "authors"
      [] f = "push_author" -> "authors"
      [] f = "set_date_range" -> "date"
      [] f = "only_completed" -> "completion_status"
      [] f = "ignore_completion_status" -> "completion_status"
      [] f = "only_incomplete" -> "completion_status"
      [] f = "only_crossover" -> "crossover_status"
      [] f = "ignore_crossover_status" -> "crossover_status"
      [] f = "only_non_crossover" -> "crossover_status"
      [] f = "single_chapter" -> "is_single_chapter"
      [] f = "set_word_count" -> "word_count"
      [] f = "set_fandoms" -> "fandoms"
      [] f = "push_fandom" -> "fandoms"
      [] f = "set_rating" -> "rating"
      [] f = "set_archive_warnings" -> "archive_warnings"
      [] f = "add_archive_warning" -> "archive_warnings"
      [] f = "set_categories" -> "categories"
      [] f = "push_category" -> "categories"
      [] f = "set_characters" -> "characters"
      [] f = "push_character" -> "characters"
      [] f = "set_relationships" -> "relationships"
      [] f = "push_relationship" -> "relationships"
      [] f = "set_additional_tags" -> "additional_tags"
      [] f = "push_additional_tag" -> "additional_tags"
      [] f = "set_hits" -> "hits"
      [] f = "set_kudos" -> "kudos"
      [] f = "set_comments" -> "comments"
      [] f = "set_bookmarks" -> "bookmarks"
      [] f = "set_sort_by" -> "sort_by"
      [] f = "set_sort_direction" -> "sort_direction"

\* the arguments the two-order runs call a setter with
ArgsOf(f) ==
    CASE f = "set_title" -> OrderTexts
      [] f = "set_authors" -> OrderVecs
      [] f = "push_author" -> {T_plain}
      [] f = "set_date_range" -> {<<"Between", 21, 13, "Hours">>}
      [] f = "only_completed" -> {<<>>}
      [] f = "ignore_completion_status" -> {<<>>}
      [] f = "only_incomplete" -> {<<>>}
      [] f = "only_crossover" -> {<<>>}
      [] f = "ignore_crossover_status" -> {<<>>}
      [] f = "only_non_crossover" -> {<<>>}
      [] f = "single_chapter" -> {TRUE}
      [] f = "set_word_count" -> {<<"LessThan", 5>>}
      [] f = "set_fandoms" -> OrderVecs
      [] f = "push_fandom" -> {T_plain}
      [] f = "set_rating" -> {"Explicit"}
      [] f = "set_archive_warnings" -> OrderVecs
      [] f = "add_archive_warning" -> {"Underage"}
      [] f = "set_categories" -> OrderVecs
      [] f = "push_category" -> {"Multi"}
      [] f = "set_characters" -> OrderVecs
      [] f = "push_character" -> {T_plain}
      [] f = "set_relationships" -> OrderVecs
      [] f = "push_relationship" -> {T_plain}
      [] f = "set_additional_tags" -> OrderVecs
      [] f = "push_additional_tag" -> {T_plain}
      [] f = "set_hits" -> {<<"LessThan", 5>>}
      [] f = "set_kudos" -> {<<"LessThan", 5>>}
      [] f = "set_comments" -> {<<"LessThan", 5>>}
      [] f = "set_bookmarks" -> {<<"LessThan", 5>>}
      [] f = "set_sort_by" -> SortBys
      [] f = "set_sort_direction" -> {"Ascending"}

Apply(f, x, self) ==
    CASE f = "set_title" -> set_title(self, x)
      [] f = "set_authors" -> set_authors(self, x)
      [] f = "push_author" -> push_author(self, x)
      [] f = "set_date_range" -> set_date_range(self, x)
      [] f = "only_completed" -> only_completed(self)
      [] f = "ignore_completion_status" -> ignore_completion_status(self)
      [] f = "only_incomplete" -> only_incomplete(self)
      [] f = "only_crossover" -> only_crossover(self)
      [] f = "ignore_crossover_status" -> ignore_crossover_status(self)
      [] f = "only_non_crossover" -> only_non_crossover(self)
      [] f = "single_chapter" -> single_chapter(self, x)
      [] f = "set_word_count" -> set_word_count(self, x)
      [] f = "set_fandoms" -> set_fandoms(self, x)
      [] f = "push_fandom" -> push_fandom(self, x)
      [] f = "set_rating" -> set_rating(self, x)
      [] f = "set_archive_warnings" -> set_archive_warnings(self, x)
      [] f = "add_archive_warning" -> add_archive_warning(self, x)
      [] f = "set_categories" -> set_categories(self, x)
      [] f = "push_category" -> push_category(self, x)
      [] f = "set_characters" -> set_characters(self, x)
      [] f = "push_character" -> push_character(self, x)
      [] f = "set_relationships" -> set_relationships(self, x)
      [] f = "push_relationship" -> push_relationship(self, x)
      [] f = "set_additional_tags" -> set_additional_tags(self, x)
      [] f = "push_additional_tag" -> push_additional_tag(self, x)
      [] f = "set_hits" -> set_hits(self, x)
      [] f = "set_kudos" -> set_kudos(self, x)
      [] f = "set_comments" -> set_comments(self, x)
      [] f = "set_bookmarks" -> set_bookmarks(self, x)
      [] f = "set_sort_by" -> set_sort_by(self, x)
      [] f = "set_sort_direction" -> set_sort_direction(self, x)

\* b is given f then g, b2 is given g then f (f, g assign different fields)
OrderStep ==
    \E f \in SetterNames, g \in SetterNames :
        /\ FieldOf(f) # FieldOf(g)
        /\ \E x \in ArgsOf(f), y \in ArgsOf(g) :
              LET fg == Apply(g, y, Apply(f, x, b))
              IN  /\ Fits(fg)
                  /\ b' = fg
                  /\ b2' = Apply(f, x, Apply(g, y, b2))
        /\ UNCHANGED <<phase, url, sort_touched, rin, rout, transport_vars, parse_vars>>

SpecOrder == Init /\ [][OrderStep]_vars

----------------------------------------------------------------------------
(* The QueryValue contract asked about one value.                          *)

InitValue ==
    /\ b = new
    /\ phase = "building"
    /\ url = <<>>
    /\ sort_touched = FALSE
    /\ b2 = new
    /\ rin \in ValueInputs
    /\ rout = <<>>
    /\ html_code = <<>>
    /\ Idle

Asked(method) == \E i \in DOMAIN rout : rout[i][1] = method

ToQueryValue ==
    /\ ~Asked("to_query_value")
    /\ rout' = Append(rout, <<"to_query_value", to_query_value(rin[1], rin[2])>>)
    /\ UNCHANGED <<b, phase, url, sort_touched, b2, rin, transport_vars, parse_vars>>

IsIncluded ==
    /\ HasIsIncluded(rin[1])
    /\ ~Asked("is_included")
    /\ rout' = Append(rout, <<"is_included", is_included(rin[1], rin[2])>>)
    /\ UNCHANGED <<b, phase, url, sort_touched, b2, rin, transport_vars, parse_vars>>

NextValue == ToQueryValue \/ IsIncluded

SpecValue == InitValue /\ [][NextValue]_vars


----------------------------------------------------------------------------
(* parse_search called on one document.                                    *)

InitParse ==
    /\ b = new
    /\ phase = "building"
    /\ url = <<>>
    /\ sort_touched = FALSE
    /\ b2 = new
    /\ rin = NoValue
    /\ rout = <<>>
    /\ html_code \in Pages
    /\ Idle

ParseSearch ==
    /\ parsed = <<"None">>
    /\ parsed' = parse_search(html_code)
    /\ UNCHANGED <<b, phase, url, sort_touched, b2, rin, rout, transport_vars, html_code>>

SpecParse == InitParse /\ [][ParseSearch]_vars
----------------------------------------------------------------------------
(* Reading a rendered string.                                              *)

\* the part of a URL after the base URL's "?"
QueryString(u) == SubSeq(u, Len(BASE_AO3_SEARCH_URL) + 1, Len(u))

\* k occurs in s at position i
OccursAt(k, s, i) == \A j \in 1 .. Len(k) : s[i + j - 1] = k[j]

\* the number of occurrences of k in s
Count(k, s) == Cardinality({i \in 1 .. (Len(s) - Len(k) + 1) : OccursAt(k, s, i)})

Positions(s, c) == {i \in 1 .. Len(s) : s[i] = c}

Min(S) == CHOOSE x \in S : \A y \in S : x <= y

RECURSIVE SplitFrom(_, _, _)
SplitFrom(s, from, P) ==
    IF P = {} THEN <<SubSeq(s, from, Len(s))>>
    ELSE LET m == Min(P)
         IN  <<SubSeq(s, from, m - 1)>> \o SplitFrom(s, m + 1, P \ {m})

\* s cut at every c
Split(s, c) == SplitFrom(s, 1, Positions(s, c))

\* a piece "name=value" cut after its first "=": <<"name=", "value">>
ParsePair(p) ==
    LET E == Positions(p, "=")
    IN  IF E = {} THEN <<p, <<>>>>
        ELSE <<SubSeq(p, 1, Min(E)), SubSeq(p, Min(E) + 1, Len(p))>>

\* a query string as a server reads it: cut at "&", each piece at its first "="
ParsePairs(qs) ==
    LET pieces == Split(qs, "&")
    IN  [i \in 1 .. Len(pieces) |-> ParsePair(pieces[i])]

\* the pairs of a sequence of pairs whose first component is key
RECURSIVE PairsOf(_, _)
PairsOf(key, pairs) ==
    IF pairs = <<>> THEN <<>>
    ELSE (IF pairs[1][1] = key THEN <<pairs[1]>> ELSE <<>>) \o PairsOf(key, Tail(pairs))

\* pushed pairs written out with "&" between them
RECURSIVE Written(_)
Written(pairs) ==
    IF pairs = <<>> THEN <<>>
    ELSE IF Len(pairs) = 1 THEN pairs[1][1] \o pairs[1][2]
    ELSE pairs[1][1] \o pairs[1][2] \o <<"&">> \o Written(Tail(pairs))

\* the keys in the order the specification fixes
FieldOrder ==
    <<K_query, K_title, K_authors, K_revised_at, K_complete, K_crossover,
      K_single_chapter, K_word_count, K_fandom_names, K_rating_ids,
      K_archive_warning_ids, K_category_ids, K_character_names, K_relationship_name,
      K_freeform_names, K_hits, K_kudos_count, K_commets_count, K_bookmarks_count,
      K_sort_column, K_sort_direction>>

ArrayKeys == {K_archive_warning_ids, K_category_ids}

Rank(key) == CHOOSE i \in DOMAIN FieldOrder : FieldOrder[i] = key

\* the keys of a builder's fields that are at their neutral default
NeutralKeys(self) ==
    {k \in {K_query} : self.any_field = <<>>}
    \cup {k \in {K_title} : self.title = <<>>}
    \cup {k \in {K_authors} : self.authors = <<>>}
    \cup {k \in {K_revised_at} : self.date = <<"None">>}
    \cup {k \in {K_complete} : self.completion_status = "Ignore"}
    \cup {k \in {K_crossover} : self.crossover_status = "Ignore"}
    \cup {k \in {K_single_chapter} : self.is_single_chapter = FALSE}
    \cup {k \in {K_word_count} : self.word_count = <<"None">>}
    \cup {k \in {K_fandom_names} : self.fandoms = <<>>}
    \cup {k \in {K_rating_ids} : self.rating = "None"}
    \cup {k \in {K_archive_warning_ids} : self.archive_warnings = <<>>}
    \cup {k \in {K_category_ids} : self.categories = <<>>}
    \cup {k \in {K_character_names} : self.characters = <<>>}
    \cup {k \in {K_relationship_name} : self.relationships = <<>>}
    \cup {k \in {K_freeform_names} : self.additional_tags = <<>>}
    \cup {k \in {K_hits} : self.hits = <<"None">>}
    \cup {k \in {K_kudos_count} : self.kudos = <<"None">>}
    \cup {k \in {K_commets_count} : self.comments = <<"None">>}
    \cup {k \in {K_bookmarks_count} : self.bookmarks = <<"None">>}

\* how often the key of a non-neutral field is to be written
Expected(key, self) ==
    IF key = K_archive_warning_ids THEN Len(self.archive_warnings)
    ELSE IF key = K_category_ids THEN Len(self.categories)
    ELSE 1

\* the texts a caller has put into the builder
CallerTexts(self) ==
    <<self.any_field, self.title>> \o self.authors \o self.fandoms \o self.characters
    \o self.relationships \o self.additional_tags

----------------------------------------------------------------------------
(* C1. The keys create_url pushes come in the fixed order query, title,    *)
(* authors, revised_at, complete, crossover, single_chapter, word_count,   *)
(* fandom_names, rating_ids, archive_warning_ids[], category_ids[],        *)
(* character_names, relationship_name, freeform_names, hits, kudos_count,  *)
(* commets_count, bookmarks_count, sort_column, sort_direction (only an    *)
(* array key may repeat), the string is these pairs written after the base *)
(* URL, and two builders given the same calls in the two orders render the *)
(* same string.                                                            *)

InFixedOrder(pairs) ==
    /\ \A i \in DOMAIN pairs : \E r \in DOMAIN FieldOrder : FieldOrder[r] = pairs[i][1]
    /\ \A i \in 1 .. (Len(pairs) - 1) :
          \/ Rank(pairs[i][1]) < Rank(pairs[i + 1][1])
          \/ pairs[i][1] = pairs[i + 1][1] /\ pairs[i][1] \in ArrayKeys

C1_FixedOrderAnyCallOrder ==
    LET r1 == create_url_run(b)
        r2 == create_url_run(b2)
    IN  /\ InFixedOrder(r1.emitted)
        /\ InFixedOrder(r2.emitted)
        /\ r1.q = BASE_AO3_SEARCH_URL \o Written(r1.emitted)
        /\ r1.q = r2.q

\* both orders of set_title and set_hits have run
C1_Witness ==
    /\ b.title = T_inject
    /\ b.hits = <<"LessThan", 5>>
    /\ b2 = b

(* C2. The key of a field at its neutral default (is_single_chapter at     *)
(* false among them) occurs nowhere in the string create_url returns.      *)
C2_NeutralKeyNowhere ==
    \A k \in NeutralKeys(b) : Count(k, create_url(b)) = 0

(* C3. The key of a field that is not at its neutral default occurs in the *)
(* string create_url returns exactly once, and archive_warning_ids[] and   *)
(* category_ids[] once per element of their list.                          *)
C3_SetKeyExactlyOnce ==
    \A i \in DOMAIN FieldOrder :
        FieldOrder[i] \notin NeutralKeys(b)
            => Count(FieldOrder[i], create_url(b)) = Expected(FieldOrder[i], b)

(* C4. Read as a query string, the output of create_url ends with the pair *)
(* work_search[sort_column]=<v> and then work_search[sort_direction]=<v>,  *)
(* whatever else is present; while no sort setter has been called the      *)
(* values are _score and desc.                                             *)
C4_SortPairsLast ==
    LET pairs == ParsePairs(QueryString(create_url(b)))
        n == Len(pairs)
    IN  /\ n >= 2
        /\ pairs[n - 1] = <<K_sort_column, SortBy_to_query_value(b.sort_by)>>
        /\ pairs[n] = <<K_sort_direction, SortDirection_to_query_value(b.sort_direction)>>
        /\ ~sort_touched =>
              /\ pairs[n - 1][2] = <<"_","s","c","o","r","e">>
              /\ pairs[n][2] = <<"d","e","s","c">>

\* other fields are present, one of them a text with "&" in it, and no sort
\* setter has been called
C4_Witness ==
    /\ ~sort_touched
    /\ b.title = T_inject
    /\ b.bookmarks # <<"None">>

(* C5. In the query string "&" stands only between two pushed pairs: the   *)
(* query string does not start with "&", does not end with "&", holds no   *)
(* "&&", and when no field value holds "&" the number of "&" is the number *)
(* of pushed pairs minus one.                                              *)
C5_DelimiterOnlyBetweenPairs ==
    LET r == create_url_run(b)
        qs == QueryString(r.q)
    IN  /\ qs[1] # "&"
        /\ qs[Len(qs)] # "&"
        /\ Count(<<"&", "&">>, qs) = 0
        /\ (\A i \in DOMAIN r.emitted : Positions(r.emitted[i][2], "&") = {})
              => Cardinality(Positions(qs, "&")) = Len(r.emitted) - 1

(* C6. The output of create_url is URL-encoded: whatever characters a text *)
(* value holds, the query string reads back as exactly the pairs that were *)
(* pushed, none added and none altered.                                    *)
C6_ReadsBackAsPushed ==
    LET r == create_url_run(b)
    IN  ParsePairs(QueryString(r.q)) = r.emitted

----------------------------------------------------------------------------
(* Reading a rendered range.                                               *)

IsDigit(c) == \E d \in DOMAIN DigitChars : DigitChars[d] = c

DigitVal(c) == (CHOOSE d \in DOMAIN DigitChars : DigitChars[d] = c) - 1

RECURSIVE NumVal(_)
NumVal(ds) ==
    IF ds = <<>> THEN 0
    ELSE NumVal(SubSeq(ds, 1, Len(ds) - 1)) * 10 + DigitVal(ds[Len(ds)])

\* the number of digits s starts with
DigitsLen(s) ==
    LET stops == {i \in 1 .. Len(s) : ~IsDigit(s[i])}
    IN  IF stops = {} THEN Len(s) ELSE Min(stops) - 1

Drop(s, k) == SubSeq(s, k + 1, Len(s))

StartsWith(s, p) == Len(s) >= Len(p) /\ SubSeq(s, 1, Len(p)) = p

\* a decimal numeral as usize is printed: digits, no leading zero but "0"
IsNumeral(ds) == ds # <<>> /\ (ds[1] = "0" => Len(ds) = 1)

\* a rendered range read from the left: an optional "> " or "< ", a numeral,
\* an optional "-" and numeral, and the rest
ReadRange(s) ==
    LET op == IF StartsWith(s, <<">"," ">>) THEN ">"
              ELSE IF StartsWith(s, <<"<"," ">>) THEN "<" ELSE "="
        s1 == IF op = "=" THEN s ELSE Drop(s, 2)
        k1 == DigitsLen(s1)
        s2 == Drop(s1, k1)
        dash == StartsWith(s2, <<"-">>)
        s3 == IF dash THEN Drop(s2, 1) ELSE s2
        k2 == IF dash THEN DigitsLen(s3) ELSE 0
    IN  [op |-> op,
         first |-> SubSeq(s1, 1, k1),
         dash |-> dash,
         second |-> SubSeq(s3, 1, k2),
         rest |-> Drop(s3, k2)]

\* the unit words of the range grammar
UnitWord(p) ==
    CASE p = "Years" -> <<"y","e","a","r","s">>
      [] p = "Weeks" -> <<"w","e","e","k","s">>
      [] p = "Months" -> <<"m","o","n","t","h","s">>
      [] p = "Days" -> <<"d","a","y","s">>
      [] p = "Hours" -> <<"h","o","u","r","s">>

\* out is the rendering the grammar gives the range v; a time range carries
\* its unit, and "ago" unless it is a Between
FollowsGrammar(v, out, timed) ==
    LET r == ReadRange(out)
        unit == v[Len(v)]
    IN  /\ IsNumeral(r.first)
        /\ NumVal(r.first) = v[2]
        /\ v[1] = "Exactly" => r.op = "=" /\ ~r.dash
        /\ v[1] = "MoreThan" => r.op = ">" /\ ~r.dash
        /\ v[1] = "LessThan" => r.op = "<" /\ ~r.dash
        /\ v[1] = "Between" =>
              /\ r.op = "="
              /\ r.dash
              /\ IsNumeral(r.second)
              /\ NumVal(r.second) = v[3]
        /\ r.rest = IF ~timed THEN <<>>
                    ELSE IF v[1] = "Between" THEN <<" ">> \o UnitWord(unit)
                    ELSE <<" ">> \o UnitWord(unit) \o <<" ","a","g","o">>

\* the examples of the documentation of Date
DocExample(v) ==
    CASE v = <<"Exactly", 7, "Days">> -> <<"7"," ","d","a","y","s"," ","a","g","o">>
      [] v = <<"Exactly", 1, "Weeks">> -> <<"1"," ","w","e","e","k","s"," ","a","g","o">>
      [] v = <<"Exactly", 2, "Months">> -> <<"2"," ","m","o","n","t","h","s"," ","a","g","o">>
      [] v = <<"Exactly", 3, "Years">> -> <<"3"," ","y","e","a","r","s"," ","a","g","o">>
      [] v = <<"LessThan", 7, "Days">> -> <<"<"," ","7"," ","d","a","y","s"," ","a","g","o">>
      [] v = <<"MoreThan", 8, "Weeks">> -> <<">"," ","8"," ","w","e","e","k","s"," ","a","g","o">>
      [] v = <<"Between", 13, 21, "Months">> -> <<"1","3","-","2","1"," ","m","o","n","t","h","s">>

DocExamples ==
    {<<"Exactly", 7, "Days">>, <<"Exactly", 1, "Weeks">>, <<"Exactly", 2, "Months">>,
     <<"Exactly", 3, "Years">>, <<"LessThan", 7, "Days">>, <<"MoreThan", 8, "Weeks">>,
     <<"Between", 13, 21, "Months">>}

RangeKinds == {"DateRange", "Date", "NumericalValueRange"}

(* C7. to_query_value of a range follows the range grammar: Exactly is     *)
(* "{n} {unit} ago", MoreThan "> {n} {unit} ago", LessThan "< {n} {unit}   *)
(* ago", Between "{lo}-{hi} {unit}" with no "ago"; a numeric range is the  *)
(* same without unit and "ago"; Between is rendered as given, lo > hi too; *)
(* the documented examples come out as documented; and to_query_value      *)
(* answers for every range.                                                *)
C7_RangeGrammar ==
    (rin[1] \in RangeKinds /\ rin[2] # <<"None">>) =>
        /\ ~Asked("to_query_value") => ENABLED ToQueryValue
        /\ \A i \in DOMAIN rout :
              rout[i][1] = "to_query_value" =>
                  /\ FollowsGrammar(rin[2], rout[i][2], rin[1] # "NumericalValueRange")
                  /\ (rin[1] # "NumericalValueRange" /\ rin[2] \in DocExamples)
                        => rout[i][2] = DocExample(rin[2])

\* a Between with lo > hi has been rendered
C7_Witness ==
    /\ rin = <<"DateRange", <<"Between", 21, 13, "Months">>>>
    /\ Asked("to_query_value")

----------------------------------------------------------------------------
\* the pair create_url is to push for a completion status
CompletePairs(status) ==
    CASE status = "Ignore" -> <<>>
      [] status = "OnlyCompleted" -> <<<<K_complete, <<"T">>>>>>
      [] status = "OnlyIncomplete" -> <<<<K_complete, <<"F">>>>>>

(* C8. The completion tri-state maps as: Ignore, the complete key is       *)
(* nowhere in the query string; OnlyCompleted, the query string holds      *)
(* work_search[complete]=T; OnlyIncomplete, work_search[complete]=F; and   *)
(* the string is that of the last call of only_completed, only_incomplete  *)
(* or ignore_completion_status, whose assignment completion_status holds.  *)
C8_CompletionTriState ==
    LET q == create_url(b)
        mine == PairsOf(K_complete, ParsePairs(QueryString(q)))
    IN  /\ Count(K_complete, q) = Len(CompletePairs(b.completion_status))
        /\ mine = CompletePairs(b.completion_status)

----------------------------------------------------------------------------
\* the identifiers of the archive's taxonomy
RatingId(r) ==
    CASE r = "NotRated" -> <<"9">>
      [] r = "General" -> <<"1","0">>
      [] r = "TeenAndUp" -> <<"1","1">>
      [] r = "Mature" -> <<"1","2">>
      [] r = "Explicit" -> <<"1","3">>

CategoryId(c) ==
    CASE c = "Gen" -> <<"2","1">>
      [] c = "FM" -> <<"2","2">>
      [] c = "MM" -> <<"2","3">>
      [] c = "Other" -> <<"2","4">>
      [] c = "FF" -> <<"1","1","6">>
      [] c = "Multi" -> <<"2","2","4","6">>

ArchiveWarningId(w) ==
    CASE w = "CreatureChoseNotToUseArchiveWarnings" -> <<"1","4">>
      [] w = "NoArchiveWarningsApply" -> <<"1","6">>
      [] w = "GraphicDepictionOfViolence" -> <<"1","7">>
      [] w = "MajorCharacterDeath" -> <<"1","8">>
      [] w = "RapeNonCon" -> <<"1","9">>
      [] w = "Underage" -> <<"2","0">>

(* C9. Every enumerated code is written as its fixed identifier in         *)
(* decimal: Rating NotRated 9, General 10, TeenAndUp 11, Mature 12,        *)
(* Explicit 13; Category Gen 21, FM 22, MM 23, Other 24, FF 116, Multi     *)
(* 2246; ArchiveWarning creator chose not to use 14, no warnings apply 16, *)
(* violence 17, character death 18, rape/non-con 19, underage 20; distinct *)
(* variants of an enumeration are written differently; and nothing is      *)
(* written for Rating::None.                                               *)
C9_EnumCodes ==
    LET e == create_url_run(b).emitted
    IN  /\ PairsOf(K_rating_ids, e)
              = IF b.rating = "None" THEN <<>>
                ELSE <<<<K_rating_ids, RatingId(b.rating)>>>>
        /\ PairsOf(K_archive_warning_ids, e)
              = [i \in 1 .. Len(b.archive_warnings) |->
                    <<K_archive_warning_ids, ArchiveWarningId(b.archive_warnings[i])>>]
        /\ PairsOf(K_category_ids, e)
              = [i \in 1 .. Len(b.categories) |->
                    <<K_category_ids, CategoryId(b.categories[i])>>]
        /\ \A x, y \in Ratings \ {"None"} :
              x # y => Rating_to_query_value(x) # Rating_to_query_value(y)
        /\ \A x, y \in ArchiveWarnings :
              x # y => ArchiveWarning_to_query_value(x) # ArchiveWarning_to_query_value(y)
        /\ \A x, y \in Categories :
              x # y => Category_to_query_value(x) # Category_to_query_value(y)

\* a rating and a category with a four-digit identifier are set
C9_Witness ==
    /\ b.rating = "Explicit"
    /\ b.categories = <<"Multi">>

----------------------------------------------------------------------------
\* the elements of a list with "," between them, built from the left
RECURSIVE CommaJoined(_)
CommaJoined(list) ==
    IF Len(list) = 1 THEN list[1]
    ELSE CommaJoined(SubSeq(list, 1, Len(list) - 1)) \o <<",">> \o list[Len(list)]

\* the keys of the string lists with their fields
StringListOf(key, self) ==
    CASE key = K_authors -> self.authors
      [] key = K_fandom_names -> self.fandoms
      [] key = K_character_names -> self.characters
      [] key = K_relationship_name -> self.relationships
      [] key = K_freeform_names -> self.additional_tags

StringListKeys ==
    {K_authors, K_fandom_names, K_character_names, K_relationship_name, K_freeform_names}

\* the coded lists with the identifiers of their elements
CodedListOf(key, self) ==
    CASE key = K_archive_warning_ids ->
            [i \in 1 .. Len(self.archive_warnings) |->
                ArchiveWarningId(self.archive_warnings[i])]
      [] key = K_category_ids ->
            [i \in 1 .. Len(self.categories) |-> CategoryId(self.categories[i])]

(* C10. The two encodings of a list are kept apart: a string list with n   *)
(* >= 1 elements is pushed as exactly one pair whose value is the elements *)
(* joined by "," in insertion order; a coded list with n >= 1 elements is  *)
(* pushed as exactly n consecutive pairs <key>[]=<code>, one per element,  *)
(* in insertion order; and the string is these pairs written out.          *)
C10_ListEncodings ==
    LET r == create_url_run(b)
        e == r.emitted
    IN  /\ \A k \in StringListKeys :
              PairsOf(k, e) = IF StringListOf(k, b) = <<>> THEN <<>>
                              ELSE <<<<k, CommaJoined(StringListOf(k, b))>>>>
        /\ \A k \in ArrayKeys :
              /\ PairsOf(k, e) = [i \in DOMAIN CodedListOf(k, b) |->
                                    <<k, CodedListOf(k, b)[i]>>]
              /\ \A i, j \in DOMAIN e :
                    (i < j /\ e[i][1] = k /\ e[j][1] = k)
                        => \A m \in i .. j : e[m][1] = k
        /\ r.q = BASE_AO3_SEARCH_URL \o Written(e)

\* a string list of two elements, one of them holding a ","
C10_Witness == b.authors = <<T_comma, T_plain>>

----------------------------------------------------------------------------
(* Reading a document.                                                     *)

RECURSIVE DocumentOrder(_)
\* the nodes of a sequence of trees, each before the nodes below it and
\* before its later siblings
DocumentOrder(nodes) ==
    IF nodes = <<>> THEN <<>>
    ELSE LET first == nodes[1]
             below == IF first.kind = "tag" THEN DocumentOrder(first.kids) ELSE <<>>
         IN  <<first>> \o below \o DocumentOrder(Tail(nodes))

Carries(n, attrib, value) == n.kind = "tag" /\ n.attributes[attrib] = value

\* the nodes of the document that carry role="article"
RecordNodes(dom) ==
    SelectSeq(DocumentOrder(dom), LAMBDA n : Carries(n, "role", <<"a","r","t","i","c","l","e">>))

\* the nodes below n, n not among them
Below(n) == IF n.kind = "tag" THEN DocumentOrder(n.kids) ELSE <<>>

RECURSIVE TextOf(_)
\* the text a node shows
TextOf(n) ==
    IF n.kind = "raw" THEN n.text
    ELSE LET texts == [i \in DOMAIN n.kids |-> TextOf(n.kids[i])]
             Cat[i \in 0 .. Len(texts)] == IF i = 0 THEN <<>> ELSE Cat[i - 1] \o texts[i]
         IN  Cat[Len(texts)]

Finished == parsed # <<"None">>

\* the document holds one record node, n
OnlyRecord(n) == RecordNodes(html_code) = <<n>>

(* C11. parse_search on a document with no node carrying role="article"    *)
(* returns a CouldNotFind error, and never Ok with an empty list of        *)
(* records.                                                                *)
C11_NoMarkerIsAnError ==
    (Finished /\ RecordNodes(html_code) = <<>>) =>
        /\ parsed[1] = "Err"
        /\ parsed[2][1] = "CouldNotFind"

\* what is left of an id attribute after its leading "work_"
AfterPrefix(id) == SubSeq(id, Len(<<"w","o","r","k","_">>) + 1, Len(id))

HasPrefix(id) == id # Absent /\ StartsWith(id, <<"w","o","r","k","_">>)

(* C12. For a record node with id work_<id> and no node below it whose     *)
(* href is exactly "/works/<id>", the extraction of the record fails with  *)
(* CouldNotFind naming href; no record is made for it.                     *)
C12_NoTitleLinkIsAnError ==
    \A n \in TopNodes :
        (/\ Finished
         /\ OnlyRecord(n)
         /\ HasPrefix(n.attributes.id)
         /\ \A i \in DOMAIN Below(n) :
               ~Carries(Below(n)[i], "href", <<"/","w","o","r","k","s","/">> \o AfterPrefix(n.attributes.id)))
        => parsed = <<"Err", <<"CouldNotFind", "href">>>>

\* the records the caller holds once parse_search has returned
Obtained == IF parsed[1] = "Ok" THEN {parsed[2][i] : i \in DOMAIN parsed[2]} ELSE {}

(* C13. A record that fails does not take the others with it: the record  *)
(* of every record node that extracts by itself is among what the caller   *)
(* obtains from the page, and no record comes from a node that fails.      *)
C13_OtherRecordsObtainable ==
    Finished =>
        \A i \in DOMAIN RecordNodes(html_code) :
            LET alone == parse_search_single_work(RecordNodes(html_code)[i])
            IN  /\ alone[1] = "Ok" => alone[2] \in Obtained
                /\ alone[1] # "Ok" => parsed[1] # "Ok" \/ Len(parsed[2]) < Len(RecordNodes(html_code))

\* the texts of the nodes below `top` that carry attrib = value, in
\* document order, each node once
TextsBelow(top, attrib, value) ==
    LET hits == SelectSeq(Below(top), LAMBDA n : Carries(n, attrib, value))
    IN  [i \in DOMAIN hits |-> TextOf(hits[i])]

\* the first "fandoms heading" container below n
HeadingOf(n) ==
    LET at == {i \in DOMAIN Below(n) : Carries(Below(n)[i], "class", <<"f","a","n","d","o","m","s"," ","h","e","a","d","i","n","g">>)}
    IN  Below(n)[Min(at)]

(* C14. The authors of a record are the texts of the rel="author" nodes    *)
(* below its "fandoms heading" container and its fandoms those of the      *)
(* class="tag" nodes, at whatever depth they are: each once, in document   *)
(* order; for the sample page ["Author One", "Author Two"] and             *)
(* ["Fandom A", "Fandom B"].                                               *)
C14_EveryNameOnce ==
    /\ \A n \in TopNodes :
          (OnlyRecord(n) /\ Finished /\ parsed[1] = "Ok") =>
              /\ parsed[2][1].authors = TextsBelow(HeadingOf(n), "rel", <<"a","u","t","h","o","r">>)
              /\ parsed[2][1].fandoms = TextsBelow(HeadingOf(n), "class", <<"t","a","g">>)
    /\ (html_code = SamplePage /\ Finished) =>
          /\ parsed[1] = "Ok"
          /\ parsed[2][1].authors = <<<<"A","u","t","h","o","r"," ","O","n","e">>, <<"A","u","t","h","o","r"," ","T","w","o">>>>
          /\ parsed[2][1].fandoms = <<<<"F","a","n","d","o","m"," ","A">>, <<"F","a","n","d","o","m"," ","B">>>>

(* C17. Extraction does not panic on its input: whatever the record nodes  *)
(* are, one without id attribute among them, parse_search returns records  *)
(* or an error naming what is missing.                                     *)
C17_NeverPanics ==
    Finished =>
        \/ parsed[1] = "Ok"
        \/ parsed[1] = "Err" /\ parsed[2][1] = "CouldNotFind"

IsNumeric(s) == s # <<>> /\ \A i \in DOMAIN s : IsDigit(s[i])

(* C18. A record node whose id attribute, its leading "work_" taken off,   *)
(* is not a number gives a parse error of another kind than CouldNotFind   *)
(* and no record with that id; and the id of a record is the attribute     *)
(* with only the leading "work_" taken off.                                *)
C18_MalformedIdIsAParseError ==
    \A n \in TopNodes :
        (OnlyRecord(n) /\ Finished /\ n.attributes.id # Absent) =>
            /\ ~IsNumeric(AfterPrefix(n.attributes.id)) =>
                  /\ parsed[1] = "Err"
                  /\ parsed[2][1] # "CouldNotFind"
            /\ parsed[1] = "Ok" => parsed[2][1].id = AfterPrefix(n.attributes.id)

(* C19. When every record of a page extracts, parse_search returns one     *)
(* record per record node, in document order, and the record of a node is  *)
(* taken from the subtree of that node only: it is what the node gives     *)
(* when it is the whole document, and its title, authors and fandoms are   *)
(* texts of nodes below it.                                                *)
C19_OneRecordPerNodeInOrder ==
    (Finished /\ parsed[1] = "Ok") =>
        LET nodes == RecordNodes(html_code)
            works == parsed[2]
        IN  /\ Len(works) = Len(nodes)
            /\ \A i \in DOMAIN nodes :
                  LET texts == {TextOf(Below(nodes[i])[j]) : j \in DOMAIN Below(nodes[i])}
                  IN  /\ parse_search(<<nodes[i]>>) = <<"Ok", <<works[i]>>>>
                      /\ works[i].id = replace(nodes[i].attributes.id, <<"w","o","r","k","_">>, <<>>)
                      /\ works[i].title \in texts
                      /\ \A k \in DOMAIN works[i].authors : works[i].authors[k] \in texts
                      /\ \A k \in DOMAIN works[i].fandoms : works[i].fandoms[k] \in texts

\* two records have been extracted, the second one level down in the
\* document, and they differ
C19_Witness ==
    /\ Finished
    /\ parsed[1] = "Ok"
    /\ Len(parsed[2]) = 2
    /\ parsed[2][1].title = <<"E","x","a","m","p","l","e"," ","W","o","r","k">>
    /\ parsed[2][2].title = <<"O","t","h","e","r"," ","W","o","r","k">>
    /\ html_code[2] = WrappedArticle

----------------------------------------------------------------------------
(* C15. send and simple_search render the query string, fetch the page and *)
(* hand the body to parse_search: when a body arrived they return the      *)
(* records parse_search extracts from it, otherwise an error.              *)
C15_ExecuteReturnsRecords ==
    phase = "sent" =>
        /\ requests = <<create_url(b)>>
        /\ response[1] = "Body" =>
              LET extracted == parse_search(response[2])
              IN  /\ extracted[1] = "Ok" => returned = extracted
                  /\ extracted[1] # "Ok" => returned[1] = "Err"
        /\ response[1] # "Body" => returned[1] = "Err"

(* C16. A call of send makes exactly one GET, to the URL create_url        *)
(* renders; when the request or the reading of the body fails, the caller  *)
(* gets the error of the transport as it is, no second request is made,    *)
(* and what is returned comes from the answer to this one request.         *)
C16_OneGetErrorSurfaced ==
    /\ phase = "building" => requests = <<>> /\ returned = <<"None">>
    /\ phase = "sent" =>
          /\ requests = <<create_url(b)>>
          /\ requests = <<url>>
          /\ response[1] # "Body" => returned = <<"Err", response>>
          /\ response[1] = "Body" =>
                returned \in {<<"Ok", <<"String", response[2]>>>>, <<"Ok", <<"()">>>>}

\* a send whose reading of the body failed, on a builder with a title
C16_Witness ==
    /\ phase = "sent"
    /\ response = <<"BodyError">>
    /\ b.title = T_plain

----------------------------------------------------------------------------
\* every field but f is in b' what it is in b
OnlyChanges(f) == \A g \in DOMAIN new \ {f} : b'[g] = b[g]

\* the neutral defaults of the descriptor
Defaults ==
    [any_field |-> <<>>, title |-> <<>>, authors |-> <<>>, date |-> <<"None">>,
     completion_status |-> "Ignore", crossover_status |-> "Ignore",
     is_single_chapter |-> FALSE, word_count |-> <<"None">>, fandoms |-> <<>>,
     rating |-> "None", archive_warnings |-> <<>>, categories |-> <<>>,
     characters |-> <<>>, relationships |-> <<>>, additional_tags |-> <<>>,
     hits |-> <<"None">>, kudos |-> <<"None">>, comments |-> <<"None">>,
     bookmarks |-> <<"None">>, sort_by |-> "BestMatch", sort_direction |-> "Descending"]

(* C20. Every builder operation changes its own field only and does not    *)
(* fail: a set_* leaves in its field the value given (the last write       *)
(* wins), a push_* or add_* appends the one element given to the end of    *)
(* its list, the elements before it kept in their order, every other field *)
(* is as it was, each operation answers with a descriptor whatever the     *)
(* descriptor and the argument, and new() has every field at its neutral   *)
(* default.                                                                *)
C20_OnlyOwnFieldChanges ==
    /\ b = Defaults
    /\ [][
          /\ \A f \in SetterNames : \A x \in ArgsOf(f) :
                DOMAIN Apply(f, x, b) = DOMAIN Defaults
          /\ \A x \in Texts : (b' = set_title(b, x) /\ SetTitle) =>
                b'.title = x /\ OnlyChanges("title")
          /\ \A x \in StringVecs : (b' = set_authors(b, x) /\ SetAuthors) =>
                b'.authors = x /\ OnlyChanges("authors")
          /\ \A x \in PushTexts : (b' = push_author(b, x) /\ PushAuthor) =>
                b'.authors = Append(b.authors, x) /\ OnlyChanges("authors")
          /\ \A x \in DateInputs : (b' = set_date_range(b, x) /\ SetDateRange) =>
                b'.date = x /\ OnlyChanges("date")
          /\ (b' = only_completed(b) /\ OnlyCompleted) => b'.completion_status = "OnlyCompleted" /\ OnlyChanges("completion_status")
          /\ (b' = ignore_completion_status(b) /\ IgnoreCompletionStatus) => b'.completion_status = "Ignore" /\ OnlyChanges("completion_status")
          /\ (b' = only_incomplete(b) /\ OnlyIncomplete) => b'.completion_status = "OnlyIncomplete" /\ OnlyChanges("completion_status")
          /\ (b' = only_crossover(b) /\ OnlyCrossover) => b'.crossover_status = "OnlyCrossover" /\ OnlyChanges("crossover_status")
          /\ (b' = ignore_crossover_status(b) /\ IgnoreCrossoverStatus) => b'.crossover_status = "Ignore" /\ OnlyChanges("crossover_status")
          /\ (b' = only_non_crossover(b) /\ OnlyNonCrossover) => b'.crossover_status = "OnlyNonCrossover" /\ OnlyChanges("crossover_status")
          /\ \A x \in BOOLEAN : (b' = single_chapter(b, x) /\ SingleChapter) =>
                b'.is_single_chapter = x /\ OnlyChanges("is_single_chapter")
          /\ \A x \in NumInputs : (b' = set_word_count(b, x) /\ SetWordCount) =>
                b'.word_count = x /\ OnlyChanges("word_count")
          /\ \A x \in StringVecs : (b' = set_fandoms(b, x) /\ SetFandoms) =>
                b'.fandoms = x /\ OnlyChanges("fandoms")
          /\ \A x \in PushTexts : (b' = push_fandom(b, x) /\ PushFandom) =>
                b'.fandoms = Append(b.fandoms, x) /\ OnlyChanges("fandoms")
          /\ \A x \in Ratings : (b' = set_rating(b, x) /\ SetRating) =>
                b'.rating = x /\ OnlyChanges("rating")
          /\ \A x \in ArchiveWarningVecs : (b' = set_archive_warnings(b, x) /\ SetArchiveWarnings) =>
                b'.archive_warnings = x /\ OnlyChanges("archive_warnings")
          /\ \A x \in ArchiveWarnings : (b' = add_archive_warning(b, x) /\ AddArchiveWarning) =>
                b'.archive_warnings = Append(b.archive_warnings, x) /\ OnlyChanges("archive_warnings")
          /\ \A x \in CategoryVecs : (b' = set_categories(b, x) /\ SetCategories) =>
                b'.categories = x /\ OnlyChanges("categories")
          /\ \A x \in Categories : (b' = push_category(b, x) /\ PushCategory) =>
                b'.categories = Append(b.categories, x) /\ OnlyChanges("categories")
          /\ \A x \in StringVecs : (b' = set_characters(b, x) /\ SetCharacters) =>
                b'.characters = x /\ OnlyChanges("characters")
          /\ \A x \in PushTexts : (b' = push_character(b, x) /\ PushCharacter) =>
                b'.characters = Append(b.characters, x) /\ OnlyChanges("characters")
          /\ \A x \in StringVecs : (b' = set_relationships(b, x) /\ SetRelationships) =>
                b'.relationships = x /\ OnlyChanges("relationships")
          /\ \A x \in PushTexts : (b' = push_relationship(b, x) /\ PushRelationship) =>
                b'.relationships = Append(b.relationships, x) /\ OnlyChanges("relationships")
          /\ \A x \in StringVecs : (b' = set_additional_tags(b, x) /\ SetAdditionalTags) =>
                b'.additional_tags = x /\ OnlyChanges("additional_tags")
          /\ \A x \in PushTexts : (b' = push_additional_tag(b, x) /\ PushAdditionalTag) =>
                b'.additional_tags = Append(b.additional_tags, x) /\ OnlyChanges("additional_tags")
          /\ \A x \in NumInputs : (b' = set_hits(b, x) /\ SetHits) =>
                b'.hits = x /\ OnlyChanges("hits")
          /\ \A x \in NumInputs : (b' = set_kudos(b, x) /\ SetKudos) =>
                b'.kudos = x /\ OnlyChanges("kudos")
          /\ \A x \in NumInputs : (b' = set_comments(b, x) /\ SetComments) =>
                b'.comments = x /\ OnlyChanges("comments")
          /\ \A x \in NumInputs : (b' = set_bookmarks(b, x) /\ SetBookmarks) =>
                b'.bookmarks = x /\ OnlyChanges("bookmarks")
          /\ \A x \in SortBys : (b' = set_sort_by(b, x) /\ SetSortBy) =>
                b'.sort_by = x /\ OnlyChanges("sort_by")
          /\ \A x \in SortDirections : (b' = set_sort_direction(b, x) /\ SetSortDirection) =>
                b'.sort_direction = x /\ OnlyChanges("sort_direction")
       ]_vars

\* an author has been appended to a list that held one
C20_Witness == b.authors = <<T_plain, T_inject>>
============================================================================
